---- MODULE Spec2Model ----
(***************************************************************************)
(* Failure classification (ApiErrorHandler.parseError), the retry executor *)
(* (ApiErrorHandler.executeWithRetry) and the response cache (ApiCache) of *)
(* the dashboard, as state machines.                                       *)
(*                                                                         *)
(* JavaScript values are tagged records: the field k is the value's type.  *)
(* Strings are sequences of symbols (characters for header values, words   *)
(* for response bodies), so that String.includes and parseInt are computed *)
(* and not assumed.                                                        *)
(***************************************************************************)
EXTENDS Integers, Sequences, FiniteSets, TLC

VARIABLES
  failure,      \* parseError: the value it is handed
  classified,   \* parseError: what it returned or raised ("pending" before)
  policy,       \* executeWithRetry: retryConfig (defaults merged with config)
  attempt,      \* executeWithRetry: the loop variable
  calls,        \* number of invocations of apiCall so far
  pc,           \* executeWithRetry: position in the async function
  lastError,    \* executeWithRetry: the local lastError
  delay,        \* executeWithRetry: delay after the cap, before the jitter
  sleepMs,      \* executeWithRetry: the argument of the pending sleep(...)
  thrown,       \* executeWithRetry: the value caught by the current catch block
  settled,      \* executeWithRetry: what the promise settled with
  history,      \* one entry per settled attempt: how that attempt ended
  cache,        \* ApiCache.cache: the Map's entries, in the Map's iteration order
  cleanupTimer, \* ApiCache.cleanupTimer is set
  nextSweep,    \* the time the interval timer is next due
  now,          \* Date.now()
  ticks,        \* number of clock advances so far
  lastOp,       \* the cache operation that ran last and what it returned
  fetchCalls,   \* cachedFetch: the state of each call in progress or settled
  sample,       \* extractFieldsFromResponse: the data it is called with
  inferred,     \* extractFieldsFromResponse: the fields it returned
  widget,       \* CustomWidget: the component's state and its timers
  test,         \* testApiEndpoint: the arguments and what the promise settled with
  refresh       \* useAutoRefresh: the hook's timer, the store and the clock

vars == <<failure, classified, policy, attempt, calls, pc, lastError, delay,
          sleepMs, thrown, settled, history, cache, cleanupTimer, nextSweep, now,
          ticks, lastOp, fetchCalls, sample, inferred, widget, test, refresh>>

classifyVars == <<failure, classified>>
retryVars ==
  <<policy, attempt, calls, pc, lastError, delay, sleepMs, thrown, settled, history>>
cacheVars == <<cache, cleanupTimer, nextSweep, now, ticks, lastOp>>

\* what a step of parseError, of executeWithRetry or of the cache alone leaves as it is
notClassifyVars == <<retryVars, cacheVars, fetchCalls, sample, inferred, widget, test, refresh>>
notRetryVars == <<classifyVars, cacheVars, fetchCalls, sample, inferred, widget, test, refresh>>
notCacheVars == <<classifyVars, retryVars, fetchCalls, sample, inferred, widget, test, refresh>>
notFetchVars == <<classifyVars, retryVars, sample, inferred, widget, test, refresh>>

---------------------------------------------------------------------------
(* JavaScript values *)

Undef == [k |-> "undefined"]

Null == [k |-> "null"]

NaN == [k |-> "NaN"]

Num(n) == [k |-> "number", n |-> n]

Str(s) == [k |-> "string", s |-> s]

\* ToBoolean
Truthy(v) ==
  CASE v.k = "undefined" -> FALSE
    [] v.k = "null" -> FALSE
    [] v.k = "NaN" -> FALSE
    [] v.k = "number" -> v.n # 0
    [] v.k = "string" -> v.s # <<>>
    [] v.k = "boolean" -> v.b
    [] OTHER -> TRUE

\* String.prototype.includes on strings as sequences of symbols
Includes(hay, needle) ==
  \E i \in 0..(Len(hay) - Len(needle)) : SubSeq(hay, i + 1, i + Len(needle)) = needle

DigitChars == <<"0", "1", "2", "3", "4", "5", "6", "7", "8", "9">>

IsDigit(c) == \E d \in 1..10 : DigitChars[d] = c

DigitVal(c) == (CHOOSE d \in 1..10 : DigitChars[d] = c) - 1

RECURSIVE SkipWs(_)
SkipWs(s) == IF s # <<>> /\ Head(s) = " " THEN SkipWs(Tail(s)) ELSE s

RECURSIVE DigitPrefix(_)
DigitPrefix(s) ==
  IF s # <<>> /\ IsDigit(Head(s)) THEN <<Head(s)>> \o DigitPrefix(Tail(s)) ELSE <<>>

RECURSIVE DigitsValue(_)
DigitsValue(ds) ==
  IF ds = <<>> THEN 0
  ELSE 10 * DigitsValue(SubSeq(ds, 1, Len(ds) - 1)) + DigitVal(ds[Len(ds)])

\* parseInt(string): leading blanks, an optional sign, then the longest run of
\* decimal digits; NaN when there is no digit
ParseInt(s) ==
  LET t == SkipWs(s)
      neg == t # <<>> /\ Head(t) = "-"
      u == IF t # <<>> /\ Head(t) \in {"+", "-"} THEN Tail(t) ELSE t
      ds == DigitPrefix(u)
  IN IF ds = <<>> THEN NaN
     ELSE Num((IF neg THEN -1 ELSE 1) * DigitsValue(ds))

---------------------------------------------------------------------------
(* ApiErrorHandler.parseError *)

RateLimitMarker == <<"API", "call", "frequency">>

PremiumMarker == <<"premium">>

InvalidCallMarker == <<"Invalid", "API", "call">>

TimeoutMarker == <<"timeout">>

DefaultRetryAfter == 60

\* what a property access or a method call on a value of the wrong type raises
TypeError == [k |-> "TypeError"]

ApiError(type, retryAfter, canRetry, statusCode) ==
  [k |-> "ApiError", type |-> type, retryAfter |-> retryAfter,
   canRetry |-> canRetry, statusCode |-> statusCode]

\* `v && v.includes(marker)`: "no", "yes", or "raise" when v is truthy and has
\* no includes method
TruthyAndIncludes(v, marker) ==
  IF ~Truthy(v) THEN "no"
  ELSE IF v.k # "string" THEN "raise"
  ELSE IF Includes(v.s, marker) THEN "yes" ELSE "no"

\* the switch on error.response.status
ClassifyStatus(status, headers) ==
  CASE status = 429 ->
         IF headers.k \in {"undefined", "null"} THEN TypeError
         ELSE LET h == headers.retryAfter
                  retryAfter == IF Truthy(h) THEN ParseInt(h.s) ELSE Num(DefaultRetryAfter)
              IN ApiError("rate_limit", retryAfter, TRUE, Num(status))
    [] status \in {401, 403} -> ApiError("auth", Undef, FALSE, Num(status))
    [] status \in {500, 502, 503, 504} -> ApiError("server", Undef, TRUE, Num(status))
    [] OTHER -> ApiError("unknown", Undef, status >= 500, Num(status))

\* no provider-specific check returned
NoMatch == [k |-> "none"]

\* the provider-specific checks on error.response.data
ClassifyBody(status, data) ==
  IF data.k # "object" THEN NoMatch
  ELSE LET rate == TruthyAndIncludes(data.Note, RateLimitMarker)
           prem == TruthyAndIncludes(data.Note, PremiumMarker)
           inv == TruthyAndIncludes(data.ErrorMessage, InvalidCallMarker)
       IN CASE rate = "raise" -> TypeError
            [] rate = "yes" ->
                 ApiError("rate_limit", Num(DefaultRetryAfter), TRUE, Num(status))
            [] prem = "yes" -> ApiError("auth", Undef, FALSE, Num(status))
            [] inv = "raise" -> TypeError
            [] inv = "yes" -> ApiError("auth", Undef, FALSE, Num(status))
            [] OTHER -> NoMatch

\* the part of parseError after `if (error.response)`
ClassifyNoResponse(error) ==
  LET code == IF error.k = "object" THEN error.code ELSE Undef
      message == IF error.k = "object" THEN error.message ELSE Undef
  IN IF code \in {Str(<<"ENOTFOUND">>), Str(<<"ECONNREFUSED">>)}
       THEN ApiError("network", Undef, TRUE, Undef)
     ELSE IF code = Str(<<"ECONNABORTED">>)
       THEN ApiError("timeout", Undef, TRUE, Undef)
     ELSE IF message.k \in {"undefined", "null"}
       THEN ApiError("unknown", Undef, FALSE, Undef)
     ELSE IF message.k # "string" THEN TypeError
     ELSE IF Includes(message.s, TimeoutMarker)
       THEN ApiError("timeout", Undef, TRUE, Undef)
     ELSE ApiError("unknown", Undef, FALSE, Undef)

ParseError(error) ==
  IF error.k \in {"undefined", "null"} THEN TypeError
  ELSE IF error.k = "object" /\ Truthy(error.response)
    THEN LET r == error.response
             byBody == ClassifyBody(r.status, r.data)
         IN IF byBody # NoMatch THEN byBody ELSE ClassifyStatus(r.status, r.headers)
  ELSE ClassifyNoResponse(error)

---------------------------------------------------------------------------
(* The values parseError is handed *)

Statuses == {400, 401, 403, 404, 429, 500, 501, 502, 503, 504}

NoteValues ==
  {Undef, Str(<<>>), Num(5),
   Str(<<"Thank", "you">>),
   Str(<<"Our", "standard", "API", "call", "frequency", "is", "5">>),
   Str(<<"This", "is", "a", "premium", "endpoint">>),
   Str(<<"API", "call", "frequency", "premium">>),
   Str(<<"API", "frequency", "call">>)}

ErrorMessageValues ==
  {Undef, Num(5), Str(<<"Not", "found">>),
   Str(<<"Invalid", "API", "call", "for", "TIME_SERIES">>)}

Body(note, errorMessage) ==
  [k |-> "object", Note |-> note, ErrorMessage |-> errorMessage]

Bodies ==
  {Null, Str(<<"Bad", "gateway">>)}
    \cup {Body(n, e) : n \in NoteValues, e \in ErrorMessageValues}

HeaderMap(retryAfter) == [k |-> "object", retryAfter |-> retryAfter]

RECURSIVE Decimal(_)
\* the decimal digits of a natural number, as a header carries them
Decimal(n) ==
  IF n < 10 THEN <<DigitChars[n + 1]>>
  ELSE Decimal(n \div 10) \o <<DigitChars[(n % 10) + 1]>>

\* the seconds a Retry-After header may carry
RetryAfterSeconds == {0, 2, 45, 120}

\* Retry-After: absent, empty, delta-seconds, or an HTTP-date ("Wed, 21 Oct ...")
RetryAfterValues ==
  {Undef, Str(<<>>), Str(<<"W", "e", "d", ",", " ", "2", "1">>)}
    \cup {Str(Decimal(n)) : n \in RetryAfterSeconds}

HeaderMaps == {Undef} \cup {HeaderMap(h) : h \in RetryAfterValues}

\* the error fetchWithErrorHandling builds for a non-2xx response (an axios
\* error has the same shape)
ResponseFailure(status, data, headers) ==
  [k |-> "object",
   response |-> [k |-> "object", status |-> status, data |-> data, headers |-> headers],
   code |-> Undef,
   message |-> Str(<<"HTTP", "error">>)]

\* a failure with no response
PlainFailure(code, message) ==
  [k |-> "object", response |-> Undef, code |-> code, message |-> message]

Codes ==
  {Undef, Str(<<"ENOTFOUND">>), Str(<<"ECONNREFUSED">>), Str(<<"ECONNABORTED">>),
   Str(<<"ERR_BAD_RESPONSE">>)}

Messages ==
  {Undef, Num(5), Str(<<"Network", "Error">>),
   Str(<<"timeout", "of", "15000ms", "exceeded">>)}

ResponseFailures ==
  {ResponseFailure(s, d, h) : s \in Statuses, d \in Bodies, h \in HeaderMaps}

PlainFailures == {PlainFailure(c, m) : c \in Codes, m \in Messages}

Failures ==
  ResponseFailures \cup PlainFailures \cup {Null, Undef, Str(<<"boom">>)}

Pending == [k |-> "pending"]

---------------------------------------------------------------------------
(* ApiErrorHandler.executeWithRetry *)

\* largest maxRetries among the policies explored
MaxRetries == 6

DefaultMaxRetries == 3

DefaultBaseDelay == 1000

DefaultMaxDelay == 30000

DefaultBackoffMultiplier == 2

\* defaultRetryConfig
DefaultPolicy ==
  [maxRetries |-> DefaultMaxRetries, baseDelay |-> DefaultBaseDelay,
   maxDelay |-> DefaultMaxDelay, backoffMultiplier |-> DefaultBackoffMultiplier]

\* the retryConfig of testApiEndpoint: { maxRetries: 2, baseDelay: 2000, maxDelay: 10000 }
TestPolicy ==
  [maxRetries |-> 2, baseDelay |-> 2000, maxDelay |-> 10000,
   backoffMultiplier |-> DefaultBackoffMultiplier]

\* the retryConfig of fetchWithErrorHandling: { maxRetries: 3, baseDelay: 1000, maxDelay: 30000 }
FetchPolicy ==
  [maxRetries |-> 3, baseDelay |-> 1000, maxDelay |-> 30000,
   backoffMultiplier |-> DefaultBackoffMultiplier]

\* retryConfig = { ...defaultRetryConfig, ...config } for the configs explored;
\* maxRetries = -1 is the policy under which the loop body never runs
Policies ==
  {DefaultPolicy, TestPolicy, FetchPolicy}
    \cup [maxRetries : (-1)..MaxRetries, baseDelay : {1000, 2000},
          maxDelay : {10000, 30000}, backoffMultiplier : {2, 3}]

\* Math.random() * 1000 lies in [0, 1000)
Jitters == {0, 500, 999}

\* the values apiCall resolves with
Values == {Str(<<"v1">>), Str(<<"v2">>)}

\* the values apiCall rejects with
RetryFailures ==
  {ResponseFailure(s, d, h) :
     s \in {401, 404, 429, 501, 503},
     d \in {Null, Body(Str(<<"API", "call", "frequency">>), Undef),
            Body(Str(<<"premium">>), Undef)},
     h \in {Undef, HeaderMap(Undef), HeaderMap(Str(Decimal(2))),
            HeaderMap(Str(Decimal(120))), HeaderMap(Str(<<"W", "e", "d", ",", " ", "2", "1">>))}}
    \cup {PlainFailure(Str(<<"ENOTFOUND">>), Str(<<"Network", "Error">>)),
          PlainFailure(Str(<<"ECONNABORTED">>), Str(<<"timeout", "of", "15000ms", "exceeded">>)),
          PlainFailure(Undef, Str(<<"Network", "Error">>)),
          PlainFailure(Undef, Num(5)),
          ResponseFailure(503, Body(Num(5), Undef), HeaderMap(Undef)),
          Null}

RECURSIVE Pow(_, _)
\* Math.pow on the integers
Pow(b, e) == IF e <= 0 THEN 1 ELSE b * Pow(b, e - 1)

Max(a, b) == IF a >= b THEN a ELSE b

Min(a, b) == IF a <= b THEN a ELSE b

\* the delay computed without the cap at maxDelay
BackoffDelayUncapped(p, n, err) ==
  LET d0 == p.baseDelay * Pow(p.backoffMultiplier, n)
  IN IF err.type = "rate_limit" /\ Truthy(err.retryAfter)
       THEN Max(d0, err.retryAfter.n * 1000)
       ELSE d0

\* the delay of lines 164-172, before the jitter is added
BackoffDelay(p, n, err) ==
  LET d0 == p.baseDelay * Pow(p.backoffMultiplier, n)
      d1 == IF err.type = "rate_limit" /\ Truthy(err.retryAfter)
              THEN Max(d0, err.retryAfter.n * 1000)
              ELSE d0
  IN Min(d1, p.maxDelay)

\* the loop test with < for <=
LoopTestStrict(n, p) == n < p.maxRetries

\* the loop test of line 152
LoopTest(n, p) == n <= p.maxRetries

\* the rethrow test without the canRetry check
ShouldRethrowOnlyLast(err, n, p) == n = p.maxRetries

\* the test of line 159: rethrow instead of retrying
ShouldRethrow(err, n, p) == ~err.canRetry \/ n = p.maxRetries

Resolved(v) == [k |-> "resolved", value |-> v]

Rejected(e) == [k |-> "rejected", value |-> e]

\* the loop test passes and apiCall is invoked
Invoke ==
  /\ pc = "loop"
  /\ LoopTest(attempt, policy)
  /\ calls' = calls + 1
  /\ pc' = "awaiting"
  /\ UNCHANGED <<policy, attempt, lastError, delay, sleepMs, thrown, settled, history>>

\* the loop test fails: throw lastError!
LoopExit ==
  /\ pc = "loop"
  /\ ~LoopTest(attempt, policy)
  /\ settled' = Rejected(lastError)
  /\ pc' = "rejected"
  /\ UNCHANGED <<policy, attempt, calls, lastError, delay, sleepMs, thrown, history>>

\* return await apiCall()
CallResolves(v) ==
  /\ pc = "awaiting"
  /\ settled' = Resolved(v)
  /\ pc' = "resolved"
  /\ history' = Append(history, "success")
  /\ UNCHANGED <<policy, attempt, calls, lastError, delay, sleepMs, thrown>>

\* the catch block, up to the await of sleep(delay)
CallRejects(e, jitter) ==
  /\ pc = "awaiting"
  /\ thrown' = e
  /\ LET err == ParseError(e) IN
       IF err = TypeError
         THEN /\ settled' = Rejected(TypeError)
              /\ pc' = "rejected"
              /\ history' = Append(history, "raised")
              /\ UNCHANGED <<lastError, delay, sleepMs>>
       ELSE IF ShouldRethrow(err, attempt, policy)
         THEN /\ lastError' = err
              /\ settled' = Rejected(err)
              /\ pc' = "rejected"
              /\ history' = Append(history, IF err.canRetry THEN "retryable" ELSE "fatal")
              /\ UNCHANGED <<delay, sleepMs>>
       ELSE /\ lastError' = err
            /\ delay' = BackoffDelay(policy, attempt, err)
            /\ sleepMs' = delay' + jitter
            /\ pc' = "sleeping"
            /\ history' = Append(history, IF err.canRetry THEN "retryable" ELSE "fatal")
            /\ UNCHANGED settled
  /\ UNCHANGED <<policy, attempt, calls>>

\* the timer of sleep(delay) fires: attempt++
SleepElapses ==
  /\ pc = "sleeping"
  /\ attempt' = attempt + 1
  /\ pc' = "loop"
  /\ delay' = 0
  /\ sleepMs' = 0
  /\ thrown' = Undef
  /\ UNCHANGED <<policy, calls, lastError, settled, history>>

---------------------------------------------------------------------------
(* ApiCache *)

\* config.maxSize of the cache explored
MaxSize == 1

\* config.defaultTTL of the singleton, ms
DefaultTTL == 300000

\* config.cleanupInterval of the singleton, ms
CleanupInterval == 120000

\* number of clock advances explored
MaxTicks == 2

\* the amounts the clock advances by, ms
TickSteps == {1000, CleanupInterval}

RECURSIVE StringifyPairs(_)
StringifyPairs(h) ==
  IF h = <<>> THEN <<>>
  ELSE <<"\"", h[1][1], "\"", ":", "\"", h[1][2], "\"">>
         \o (IF Len(h) > 1 THEN <<",">> ELSE <<>>)
         \o StringifyPairs(Tail(h))

\* JSON.stringify of a headers object, given as its entries in insertion order
Stringify(h) == <<"{">> \o StringifyPairs(h) \o <<"}">>

\* generateKey: `${url}:${headersStr}`
generateKey(url, headers) ==
  url \o <<":">> \o (IF headers = Undef THEN <<>> ELSE Stringify(headers.entries))

\* a Record<string, string>, as its entries in insertion order
Headers(entries) == [k |-> "object", entries |-> entries]

\* the (url, headers) arguments explored
Requests ==
  {<<<<"u1">>, Headers(<<>>)>>,
   <<<<"u1">>, Headers(<< <<"a", "1">> >>)>>}

\* the payloads explored
Payloads == {Str(<<"d1">>), Str(<<"d2">>)}

\* the ttl arguments explored
Ttls == {Undef, Num(0), Num(1000), Num(-1000)}

\* entry.expiresAt <= now, with <
ExpiredStrict(entry, t) == entry.expiresAt < t

\* entry.expiresAt <= now
Expired(entry, t) == entry.expiresAt <= t

\* positions of the Map's entries under a key (at most one)
IndexOf(c, key) == {i \in 1..Len(c) : c[i].key = key}

\* Map.delete
MapDelete(c, key) ==
  LET keep == {i \in 1..Len(c) : c[i].key # key}
      RECURSIVE pick(_)
      pick(i) ==
        IF i > Len(c) THEN <<>>
        ELSE (IF i \in keep THEN <<c[i]>> ELSE <<>>) \o pick(i + 1)
  IN pick(1)

\* Map.set: an existing key keeps its position, a new key goes last
MapSet(c, entry) ==
  IF IndexOf(c, entry.key) = {} THEN Append(c, entry)
  ELSE [i \in 1..Len(c) |-> IF c[i].key = entry.key THEN entry ELSE c[i]]

RECURSIVE DropExpired(_, _)
\* lines 470-476: delete every entry with expiresAt <= now
DropExpired(c, t) ==
  IF c = <<>> THEN <<>>
  ELSE (IF Expired(Head(c), t) THEN <<>> ELSE <<Head(c)>>) \o DropExpired(Tail(c), t)

RECURSIVE InsertBeforeEqual(_, _)
\* insert e before the entries of the same timestamp: the order of a sort
\* that is not stable
InsertBeforeEqual(sorted, e) ==
  IF sorted = <<>> THEN <<e>>
  ELSE IF Head(sorted).timestamp < e.timestamp
    THEN <<Head(sorted)>> \o InsertBeforeEqual(Tail(sorted), e)
  ELSE <<e>> \o sorted

RECURSIVE InsertByTimestamp(_, _)
\* insert e after every entry whose timestamp is not larger
InsertByTimestamp(sorted, e) ==
  IF sorted = <<>> THEN <<e>>
  ELSE IF Head(sorted).timestamp <= e.timestamp
    THEN <<Head(sorted)>> \o InsertByTimestamp(Tail(sorted), e)
  ELSE <<e>> \o sorted

RECURSIVE SortByTimestamp(_)
\* entries.sort((a, b) => a[1].timestamp - b[1].timestamp), a stable sort
SortByTimestamp(c) ==
  IF c = <<>> THEN <<>>
  ELSE InsertByTimestamp(SortByTimestamp(SubSeq(c, 1, Len(c) - 1)), c[Len(c)])

RECURSIVE DeleteAll(_, _)
DeleteAll(c, victims) ==
  IF victims = <<>> THEN c
  ELSE DeleteAll(MapDelete(c, Head(victims).key), Tail(victims))

\* cleanup with the capacity pass deleting the newest entries
cleanupNewest(c, t) ==
  LET live == DropExpired(c, t)
  IN IF Len(live) > MaxSize
       THEN DeleteAll(live, SubSeq(SortByTimestamp(live), MaxSize + 1, Len(live)))
       ELSE live

\* ApiCache.cleanup
cleanup(c, t) ==
  LET live == DropExpired(c, t)
  IN IF Len(live) > MaxSize
       THEN DeleteAll(live, SubSeq(SortByTimestamp(live), 1, Len(live) - MaxSize))
       ELSE live

\* the inline sweep only above twice maxSize
OverThresholdDouble(size) == size > MaxSize * 2

\* size > maxSize * 1.2
OverThreshold(size) == size * 10 > MaxSize * 12

\* ApiCache.get
Get(url, headers) ==
  LET key == generateKey(url, headers)
      at == IndexOf(cache, key)
      \* whether this get directly follows a set, with no time elapsed
      since == IF lastOp.op = "set" /\ lastOp.entry.timestamp = now
                 THEN (IF lastOp.swept THEN "sweeping set" ELSE "set")
               ELSE "other"
  IN /\ IF at = {}
          THEN /\ cache' = cache
               /\ lastOp' = [op |-> "get", url |-> url, headers |-> headers,
                             branch |-> "absent", ret |-> Null, since |-> since]
        ELSE LET entry == cache[CHOOSE i \in at : TRUE] IN
          IF Expired(entry, now)
            THEN /\ cache' = MapDelete(cache, key)
                 /\ lastOp' = [op |-> "get", url |-> url, headers |-> headers,
                               branch |-> "expired", ret |-> Null, since |-> since]
          ELSE /\ cache' = cache
               /\ lastOp' = [op |-> "get", url |-> url, headers |-> headers,
                             branch |-> "hit", ret |-> entry.data, since |-> since]
     /\ UNCHANGED <<cleanupTimer, nextSweep, now, ticks>>

\* set that stores every entry with the default TTL
SetWithDefaultTTL(url, data, headers, ttl) ==
  LET key == generateKey(url, headers)
      entry == [key |-> key, data |-> data, timestamp |-> now,
                expiresAt |-> now + DefaultTTL]
      stored == MapSet(cache, entry)
      swept == OverThreshold(Len(stored))
  IN /\ cache' = IF swept THEN cleanup(stored, now) ELSE stored
     /\ lastOp' = [op |-> "set", entry |-> entry, swept |-> swept,
                   stored |-> IF swept THEN stored ELSE <<>>]
     /\ UNCHANGED <<cleanupTimer, nextSweep, now, ticks>>

\* ApiCache.set
Set(url, data, headers, ttl) ==
  LET key == generateKey(url, headers)
      expiresAt == now + (IF Truthy(ttl) THEN ttl.n ELSE DefaultTTL)
      entry == [key |-> key, data |-> data, timestamp |-> now, expiresAt |-> expiresAt]
      stored == MapSet(cache, entry)
      swept == OverThreshold(Len(stored))
  IN /\ cache' = IF swept THEN cleanup(stored, now) ELSE stored
     /\ lastOp' = [op |-> "set", entry |-> entry, swept |-> swept,
                   stored |-> IF swept THEN stored ELSE <<>>]
     /\ UNCHANGED <<cleanupTimer, nextSweep, now, ticks>>

\* ApiCache.has
Has(url, headers) ==
  LET key == generateKey(url, headers)
      at == IndexOf(cache, key)
  IN /\ IF at = {}
          THEN /\ cache' = cache
               /\ lastOp' = [op |-> "has", ret |-> FALSE]
        ELSE IF Expired(cache[CHOOSE i \in at : TRUE], now)
          THEN /\ cache' = MapDelete(cache, key)
               /\ lastOp' = [op |-> "has", ret |-> FALSE]
        ELSE /\ cache' = cache
             /\ lastOp' = [op |-> "has", ret |-> TRUE]
     /\ UNCHANGED <<cleanupTimer, nextSweep, now, ticks>>

\* ApiCache.delete
Delete(url, headers) ==
  LET key == generateKey(url, headers)
  IN /\ cache' = MapDelete(cache, key)
     /\ lastOp' = [op |-> "delete", ret |-> (IndexOf(cache, key) # {})]
     /\ UNCHANGED <<cleanupTimer, nextSweep, now, ticks>>

\* ApiCache.clear
Clear ==
  /\ cache' = <<>>
  /\ lastOp' = [op |-> "clear"]
  /\ UNCHANGED <<cleanupTimer, nextSweep, now, ticks>>

\* ApiCache.destroy
Destroy ==
  /\ cleanupTimer' = FALSE
  /\ cache' = <<>>
  /\ lastOp' = [op |-> "destroy"]
  /\ UNCHANGED <<nextSweep, now, ticks>>

\* a callback that only waits for the next interval
CleanupTimerSkips ==
  /\ cleanupTimer
  /\ now >= nextSweep
  /\ nextSweep' = now + CleanupInterval
  /\ lastOp' = [op |-> "sweep", removed |-> 0]
  /\ UNCHANGED <<cache, cleanupTimer, now, ticks>>

\* the callback of the setInterval of startCleanup
CleanupTimerFires ==
  /\ cleanupTimer
  /\ now >= nextSweep
  /\ cache' = cleanup(cache, now)
  /\ nextSweep' = now + CleanupInterval
  /\ lastOp' = [op |-> "sweep", removed |-> Len(cache) - Len(cache')]
  /\ UNCHANGED <<cleanupTimer, now, ticks>>

\* Date.now() advances
Tick(d) ==
  /\ ticks < MaxTicks
  /\ now' = now + d
  /\ ticks' = ticks + 1
  /\ UNCHANGED <<cache, cleanupTimer, nextSweep, lastOp>>

---------------------------------------------------------------------------
(* cachedFetch and fetchWithErrorHandling *)

\* the two calls of the round-trip scenario, numbered in the order they are issued
CallIds == {1, 2}

\* the bodies response.json() parses
JsonBodies == {Str(<<"d1">>), Num(0)}

\* the (url, options.headers) of the calls explored
FetchRequests == {<<<<"u1">>, Headers(<<>>)>>}

\* options.method of the calls explored
Methods == {Undef, Str(<<"get">>), Str(<<"post">>)}

\* cacheOptions.ttl of the calls explored
FetchTtls == {Num(5000)}

\* String.prototype.toUpperCase on the method names
ToUpperCase(s) ==
  [i \in 1..Len(s) |->
     CASE s[i] = "get" -> "GET"
       [] s[i] = "post" -> "POST"
       [] OTHER -> s[i]]

\* options.method?.toUpperCase() || 'GET'
EffectiveMethod(m) ==
  IF m.k \in {"undefined", "null"} THEN <<"GET">>
  ELSE IF ToUpperCase(m.s) = <<>> THEN <<"GET">>
  ELSE ToUpperCase(m.s)

\* the test of line 582 with skipCache ignored
BypassMethodOnly(method, skipCache) == method # <<"GET">>

\* method !== 'GET' || skipCache
Bypass(method, skipCache) == method # <<"GET">> \/ skipCache

\* what fetch(url, options) resolved with; body is the parsed text
HttpResponse(status, body) ==
  [k |-> "response", status |-> status, body |-> body, headers |-> HeaderMap(Undef)]

\* fetch(url, options) rejected: no response was received
NetworkFailure == PlainFailure(Undef, Str(<<"Failed", "to", "fetch">>))

\* how one transport call can end
TransportOutcomes ==
  {HttpResponse(200, b) : b \in JsonBodies}
    \cup {HttpResponse(st, Body(Undef, Undef)) : st \in {500}}
    \cup {NetworkFailure}

\* response.ok with the statuses from 300 on accepted as well
ResponseOkNoUpperBound(r) == r.status >= 200

\* response.ok
ResponseOk(r) == r.status >= 200 /\ r.status <= 299

\* a call that was not issued yet
NewCall ==
  [pc |-> "new", req |-> Undef, method |-> <<>>, skipCache |-> FALSE,
   withRetry |-> FALSE, ttl |-> Undef, attempt |-> 0, sent |-> 0,
   changed |-> FALSE, ret |-> Pending]

\* cachedFetch up to its first await: the bypass test, the lookup, and on a
\* miss the first fetch(url, options) of fetchWithErrorHandling
StartFetch(i, req, m, skipCache, withRetry, ttl) ==
  LET method == EffectiveMethod(m)
      issued == [NewCall EXCEPT !.req = req, !.method = method,
                                !.skipCache = skipCache, !.withRetry = withRetry,
                                !.ttl = ttl]
      sending == [issued EXCEPT !.pc = "awaiting", !.sent = 1]
  IN /\ fetchCalls[i].pc = "new"
     /\ \A j \in CallIds : j < i => fetchCalls[j].pc # "new"
     /\ IF Bypass(method, skipCache)
          THEN /\ fetchCalls' = [fetchCalls EXCEPT ![i] = sending]
               /\ UNCHANGED cacheVars
          ELSE /\ Get(req[1], req[2])
               /\ fetchCalls' =
                    [fetchCalls EXCEPT ![i] =
                       IF Truthy(lastOp'.ret)
                         THEN [issued EXCEPT !.pc = "resolved", !.ret = lastOp'.ret,
                                             !.changed = (cache' # cache)]
                       ELSE [sending EXCEPT !.changed = (cache' # cache)]]

\* the transport call of call i ends: apiCall returns or throws, then the catch
\* block of executeWithRetry and the rest of cachedFetch run
TransportEnds(i, out) ==
  LET c == fetchCalls[i]
      settle(to, v) ==
        [fetchCalls EXCEPT ![i] = [c EXCEPT !.pc = to, !.ret = v, !.attempt = 0]]
  IN /\ c.pc = "awaiting"
     /\ IF out.k = "response" /\ ResponseOk(out)
          THEN IF Bypass(c.method, c.skipCache)
                 THEN /\ fetchCalls' = settle("resolved", out.body)
                      /\ UNCHANGED cacheVars
               ELSE /\ Set(c.req[1], out.body, c.req[2], c.ttl)
                    /\ fetchCalls' =
                         [fetchCalls EXCEPT ![i] =
                            [c EXCEPT !.pc = "resolved", !.ret = out.body,
                                      !.attempt = 0,
                                      !.changed = c.changed \/ cache' # cache]]
        ELSE LET error == IF out.k = "response"
                            THEN ResponseFailure(out.status, out.body, out.headers)
                          ELSE out
                 err == ParseError(error)
             IN /\ fetchCalls' =
                     IF ~c.withRetry THEN settle("rejected", error)
                     ELSE IF err = TypeError THEN settle("rejected", TypeError)
                     ELSE IF ShouldRethrow(err, c.attempt, FetchPolicy)
                       THEN settle("rejected", err)
                     ELSE [fetchCalls EXCEPT ![i] = [c EXCEPT !.pc = "sleeping"]]
                /\ UNCHANGED cacheVars

\* the timer of sleep(delay + jitter) of call i fires: attempt++, the loop
\* test, and the next fetch(url, options)
RetryFetch(i) ==
  LET c == fetchCalls[i] IN
  /\ c.pc = "sleeping"
  /\ fetchCalls' =
       [fetchCalls EXCEPT ![i] =
          IF LoopTest(c.attempt + 1, FetchPolicy)
            THEN [c EXCEPT !.pc = "awaiting", !.attempt = c.attempt + 1,
                           !.sent = c.sent + 1]
          ELSE [c EXCEPT !.pc = "rejected", !.attempt = 0]]
  /\ UNCHANGED cacheVars

---------------------------------------------------------------------------
(* extractFieldsFromResponse *)

\* JSON values: strings are sequences of characters, an object is the sequence
\* of its <<key, value>> entries in the order Object.keys lists them (none of
\* the keys explored is an array index)
JsonBool(b) == [k |-> "boolean", b |-> b]

JsonArray(items) == [k |-> "array", items |-> items]

JsonObject(entries) == [k |-> "object", entries |-> entries]

\* the default of the parameter maxDepth
DefaultMaxDepth == 3

\* isDateString; Date.parse is modelled on the three shapes the patterns
\* select, where it fails exactly on a month or day out of range
isDateString(s) ==
  LET digitsAt(from, to) == to <= Len(s) /\ \A i \in from..to : IsDigit(s[i])
      charAt(i, c) == i <= Len(s) /\ s[i] = c
      two(i) == DigitVal(s[i]) * 10 + DigitVal(s[i + 1])
      ymd == /\ digitsAt(1, 4) /\ charAt(5, "-") /\ digitsAt(6, 7)
             /\ charAt(8, "-") /\ digitsAt(9, 10)
      mdy == /\ digitsAt(1, 2) /\ charAt(3, "/") /\ digitsAt(4, 5)
             /\ charAt(6, "/") /\ digitsAt(7, 10)
      iso == /\ ymd /\ charAt(11, "T") /\ digitsAt(12, 13) /\ charAt(14, ":")
             /\ digitsAt(15, 16) /\ charAt(17, ":") /\ digitsAt(18, 19)
      parses ==
        IF ymd /\ Len(s) = 10 THEN two(6) \in 1..12 /\ two(9) \in 1..31
        ELSE IF iso /\ Len(s) = 19
          THEN /\ two(6) \in 1..12 /\ two(9) \in 1..31
               /\ two(12) <= 23 /\ two(15) <= 59 /\ two(18) <= 59
        ELSE IF mdy /\ Len(s) = 10 THEN two(1) \in 1..12 /\ two(4) \in 1..31
        ELSE FALSE
  IN (ymd \/ mdy \/ iso) /\ parses

\* getFieldType
getFieldType(value) ==
  LET \* !isNaN(parseFloat(value)): blanks, an optional sign, then a digit or
      \* a point followed by a digit
      t == SkipWs(value.s)
      u == IF t # <<>> /\ Head(t) \in {"+", "-"} THEN Tail(t) ELSE t
      parsesFloat ==
        /\ u # <<>>
        /\ \/ IsDigit(u[1])
           \/ u[1] = "." /\ Len(u) > 1 /\ IsDigit(u[2])
      \* value.replace(/[,\s$%]/g, '')
      cleanValue == SelectSeq(value.s, LAMBDA c : c \notin {",", " ", "$", "%"})
      body == IF cleanValue # <<>> /\ Head(cleanValue) = "-"
                THEN Tail(cleanValue) ELSE cleanValue
      \* /^-?\d*\.?\d+$/
      signedDecimal ==
        /\ body # <<>>
        /\ \A i \in 1..Len(body) : IsDigit(body[i]) \/ body[i] = "."
        /\ Cardinality({i \in 1..Len(body) : body[i] = "."}) <= 1
        /\ IsDigit(body[Len(body)])
  IN IF value.k = "boolean" THEN "boolean"
     ELSE IF value.k = "number" THEN "number"
     ELSE IF value.k = "string"
       THEN IF isDateString(value.s) THEN "date"
            ELSE IF parsesFloat /\ signedDecimal THEN "number"
            ELSE "string"
     ELSE "string"

\* getSampleValue
getSampleValue(value) ==
  IF value.k = "array"
    THEN (IF Len(value.items) > 0 THEN value.items[1] ELSE Null)
  ELSE IF value.k = "object" THEN Str(<<"[Object]">>)
  ELSE value

\* `${path}${key}`
FieldPathNoDot(path, key) == path \o key

\* path ? `${path}.${key}` : key
FieldPath(path, key) == IF path # <<>> THEN path \o <<".">> \o key ELSE key

\* the first element analysed at the depth of the array itself
ElementDepthSame(maxDepth) == maxDepth

\* the maxDepth handed on with data[0]
ElementDepth(maxDepth) == maxDepth - 1

RECURSIVE extractFieldsFromResponse(_, _, _)
\* extractFieldsFromResponse; the label of a field is left out
extractFieldsFromResponse(data, path, maxDepth) ==
  IF maxDepth <= 0 \/ data.k \in {"null", "undefined"} THEN <<>>
  ELSE IF data.k = "array"
    THEN IF Len(data.items) > 0
           THEN extractFieldsFromResponse(data.items[1], path, ElementDepth(maxDepth))
         ELSE <<>>
  ELSE IF data.k = "object"
    THEN LET RECURSIVE forEach(_)
             forEach(entries) ==
               IF entries = <<>> THEN <<>>
               ELSE LET key == entries[1][1]
                        value == entries[1][2]
                        fieldPath == FieldPath(path, key)
                    IN << [key |-> key, type |-> getFieldType(value),
                           path |-> fieldPath, sample |-> getSampleValue(value)] >>
                         \o (IF value.k = "object"
                               THEN extractFieldsFromResponse(value, fieldPath, maxDepth - 1)
                             ELSE <<>>)
                         \o forEach(Tail(entries))
         IN forEach(data.entries)
  ELSE <<>>

\* the values a response carries in a field
LeafValues ==
  {Null, Num(1), JsonBool(TRUE),
   Str(<<"2", "0", "2", "4", "-", "0", "1", "-", "0", "1">>),
   Str(<<"2", "0", "2", "4", "-", "1", "3", "-", "0", "1">>),
   Str(<<"2", "0", "2", "4", "-", "0", "1", "-", "0", "1", "T",
         "1", "0", ":", "3", "0", ":", "0", "0">>),
   Str(<<"0", "1", "/", "0", "2", "/", "2", "0", "2", "4">>),
   Str(<<"1", "2", ".", "5">>), Str(<<"1", ",", "2", "3", "4">>),
   Str(<<"$", "1", "2">>), Str(<<"1", "2", "%">>), Str(<<"1", "2", "a">>),
   Str(<<"a", "b", "c">>), Str(<<>>),
   JsonArray(<<>>), JsonArray(<<Num(1)>>)}

\* { [key]: value }
Wrap(key, value) == JsonObject(<< <<key, value>> >>)

\* the objects explored that hold no object
FlatObjects ==
  {Wrap(<<"v">>, l) : l \in LeafValues}
    \cup {JsonObject(<<>>),
          JsonObject(<< <<<<"b">>, Num(1)>>,
                        <<<<"c">>, Str(<<"2", "0", "2", "4", "-", "0", "1", "-", "0", "1">>)>> >>),
          JsonObject(<< <<<<"U", "S", "D">>, Num(1)>>, <<<<"E", "U", "R">>, Num(1)>> >>)}

\* the data explored: values that are no object, objects nested one to four
\* deep under the keys a, b, c or the empty key, arrays of objects, and
\* arrays of nested objects and of arrays
Samples ==
  {Undef} \cup LeafValues \cup FlatObjects
    \cup {Wrap(k, f) : k \in {<<"a">>, <<>>}, f \in FlatObjects}
    \cup {Wrap(<<"a">>, Wrap(<<"b">>, f)) : f \in FlatObjects}
    \cup {Wrap(<<"a">>, Wrap(<<"b">>, Wrap(<<"c">>, f))) : f \in FlatObjects}
    \cup {JsonArray(<<f>>) : f \in FlatObjects}
    \cup {Wrap(<<"a">>, JsonArray(<<f>>)) : f \in FlatObjects}
    \cup {JsonArray(<<Wrap(<<"a">>, Wrap(<<"b">>, f))>>) : f \in FlatObjects}
    \cup {JsonArray(<<JsonArray(<<f>>)>>) : f \in FlatObjects}
    \cup {JsonArray(<<JsonArray(<<JsonArray(<<f>>)>>)>>) : f \in FlatObjects}

\* extractFieldsFromResponse(response.data)
Infer ==
  /\ inferred = Pending
  /\ inferred' = [k |-> "fields",
                  list |-> extractFieldsFromResponse(sample, <<>>, DefaultMaxDepth)]
  /\ UNCHANGED sample

---------------------------------------------------------------------------
(* CustomWidget and ErrorDisplay *)

\* number of fetchData calls after which no further failure, change of the
\* configuration or click is explored
MaxFetches == 4

\* the ApiErrors cachedFetch rejects with: a rate limit with Retry-After 2, one
\* with an HTTP-date Retry-After (NaN), a server error and an authentication
\* error
WidgetErrors ==
  {ApiError("rate_limit", Num(2), TRUE, Num(429)),
   ApiError("rate_limit", NaN, TRUE, Num(429)),
   ApiError("server", Undef, TRUE, Num(500)),
   ApiError("auth", Undef, FALSE, Num(401))}

\* the component after its first render, before its effect ran; calls are the
\* fetchData calls awaiting cachedFetch, effectDue says what made the
\* fetchData the effect has still to run ("none" when it has run), late
\* whether a countdown callback ran after the unmount
MountedWidget ==
  [mounted |-> TRUE, loading |-> FALSE, apiError |-> Null, retryCountdown |-> 0,
   intervals |-> 0, retryCount |-> Undef, effectDue |-> "mount", calls |-> <<>>,
   fetches |-> 0, late |-> FALSE]

\* the effect of a render has still to run
EffectPending == widget.mounted /\ widget.effectDue # "none"

\* ApiErrorHandler.shouldShowRetryButton
shouldShowRetryButton(error) == error.canRetry /\ error.type # "rate_limit"

\* ErrorDisplay is rendered and shows its retry button
RetryButtonShown ==
  /\ widget.mounted
  /\ ~widget.loading
  /\ widget.apiError # Null
  /\ shouldShowRetryButton(widget.apiError)

\* the retry button is shown and not disabled
RetryButtonEnabled ==
  /\ RetryButtonShown
  /\ widget.apiError.canRetry # FALSE
  /\ widget.retryCountdown = 0

\* a sequence without its i-th element
RemoveAt(seq, i) == SubSeq(seq, 1, i - 1) \o SubSeq(seq, i + 1, Len(seq))

\* fetchData up to the await of cachedFetch; the call keeps the retryCount its
\* closure captured
StartFetchData(skipCache) ==
  [widget EXCEPT !.loading = TRUE, !.apiError = Null, !.effectDue = "none",
                 !.calls = Append(widget.calls,
                                  [skipCache |-> skipCache,
                                   retryCount |-> widget.retryCount]),
                 !.fetches = widget.fetches + 1]

\* useEffect(() => { fetchData() }, [fetchData]): after the mount and after
\* every render that made a new fetchData, ahead of any later event
RunFetchEffect ==
  /\ EffectPending
  /\ widget' = StartFetchData(FALSE)

\* the user saves another apiUrl, apiHeaders or refreshInterval for the widget
ConfigChanges ==
  /\ widget.mounted
  /\ ~EffectPending
  /\ widget.fetches < MaxFetches
  /\ widget' = [widget EXCEPT !.effectDue = "config"]

\* the widget is removed from the dashboard: CustomWidget has no cleanup
Unmount ==
  /\ widget.mounted
  /\ ~EffectPending
  /\ widget' = [widget EXCEPT !.mounted = FALSE, !.effectDue = "none"]

\* cachedFetch of call i resolved: updateWidget(widget.id, { lastError: undefined })
FetchDataSucceeds(i) ==
  /\ ~EffectPending
  /\ i \in DOMAIN widget.calls
  /\ widget' = [widget EXCEPT !.loading = FALSE, !.calls = RemoveAt(widget.calls, i),
                              !.retryCount = Undef,
                              !.effectDue =
                                 IF widget.mounted /\ widget.retryCount # Undef
                                   THEN "success" ELSE "none"]

\* cachedFetch of call i rejected: the catch block, startRetryCountdown for a
\* rate limit with a truthy retryAfter, and the finally block
FetchDataFails(i, apiErr) ==
  LET captured == widget.calls[i].retryCount
      retryCount == Num((IF Truthy(captured) THEN captured.n ELSE 0) + 1)
      counting == apiErr.type = "rate_limit" /\ Truthy(apiErr.retryAfter)
  IN /\ ~EffectPending
     /\ i \in DOMAIN widget.calls
     /\ widget.fetches < MaxFetches
     /\ widget' =
          [widget EXCEPT
             !.loading = FALSE, !.calls = RemoveAt(widget.calls, i),
             !.apiError = apiErr,
             !.retryCount = retryCount,
             !.effectDue = IF widget.mounted /\ retryCount # widget.retryCount
                             THEN "failure" ELSE "none",
             !.retryCountdown = IF counting THEN apiErr.retryAfter.n
                                ELSE widget.retryCountdown,
             !.intervals = IF counting THEN widget.intervals + 1 ELSE widget.intervals]

\* the callback of a setInterval of startRetryCountdown; after the unmount
\* React may drop the update, and then the updater that clears the interval
\* does not run
CountdownInterval(dropped) ==
  /\ ~EffectPending
  /\ widget.intervals > 0
  /\ dropped => ~widget.mounted
  /\ widget' =
       IF dropped THEN [widget EXCEPT !.late = TRUE]
       ELSE IF widget.retryCountdown <= 1
         THEN [widget EXCEPT !.retryCountdown = 0, !.intervals = widget.intervals - 1,
                             !.late = ~widget.mounted]
       ELSE [widget EXCEPT !.retryCountdown = widget.retryCountdown - 1,
                           !.late = ~widget.mounted]

\* a click on the retry button of ErrorDisplay: handleRetry
ClickRetry ==
  /\ ~EffectPending
  /\ RetryButtonEnabled
  /\ widget.fetches < MaxFetches
  /\ widget' = IF widget.retryCountdown = 0 THEN StartFetchData(TRUE) ELSE widget

---------------------------------------------------------------------------
(* testApiEndpoint *)

\* the responses axios.get resolves with
TestResponses ==
  {[k |-> "response", data |-> d] :
     d \in {Null, Str(<<"o", "k">>), Wrap(<<"a">>, Wrap(<<"b">>, Num(1))),
            JsonArray(<<Wrap(<<"v">>, Num(1))>>)}}

\* the errors axios.get rejects with: responses outside 2xx, whose headers are
\* always an object and whose body is whatever the server sent, a timeout and
\* a connection failure
TestFailures ==
  {ResponseFailure(s, d, h) :
     s \in {401, 429, 503},
     d \in {Null, Body(Str(<<"API", "call", "frequency">>), Undef), Body(Num(5), Undef)},
     h \in {HeaderMap(Undef), HeaderMap(Str(Decimal(2)))}}
    \cup {PlainFailure(Str(<<"ECONNABORTED">>), Str(<<"timeout", "of", "15000ms", "exceeded">>)),
          PlainFailure(Undef, Str(<<"Network", "Error">>))}

\* a TypeError as a catch block sees it: an object with a message and neither
\* response, code nor type
TypeErrorObject == PlainFailure(Undef, Str(<<"Cannot", "read", "properties">>))

\* the ApiTestResult of a success; error and responseTime are left out
TestSuccess(data) ==
  [success |-> TRUE, data |-> data,
   fields |-> extractFieldsFromResponse(data, <<>>, DefaultMaxDepth),
   apiError |-> Undef, canRetry |-> Undef, retryAfter |-> Undef]

\* the ApiTestResult of a failure
TestFailure(apiError) ==
  [success |-> FALSE, data |-> Undef, fields |-> Undef,
   apiError |-> apiError, canRetry |-> apiError.canRetry,
   retryAfter |-> apiError.retryAfter]

\* the try block after its await and the catch block: what the promise of
\* testApiEndpoint settles with once the awaited call settled with outcome
testApiEndpoint(outcome) ==
  IF outcome.k = "resolved" THEN Resolved(TestSuccess(outcome.value.data))
  ELSE LET error == outcome.value
       IN IF error.k = "ApiError" THEN Resolved(TestFailure(error))
          ELSE LET apiError ==
                     ParseError(IF error = TypeError THEN TypeErrorObject ELSE error)
               IN IF apiError = TypeError THEN Rejected(TypeError)
                  ELSE Resolved(TestFailure(apiError))

\* withRetry is false: response = await apiCall()
AwaitApiCall(outcome) ==
  /\ ~test.withRetry
  /\ test.result = Pending
  /\ test' = [test EXCEPT !.outcome = outcome, !.result = testApiEndpoint(outcome)]

\* withRetry is true: response = await executeWithRetry(apiCall, ...) settled
AwaitExecuteWithRetry ==
  /\ test.withRetry
  /\ test.result = Pending
  /\ pc \in {"resolved", "rejected"}
  /\ test' = [test EXCEPT !.outcome = settled, !.result = testApiEndpoint(settled)]

---------------------------------------------------------------------------
(* useAutoRefresh and smartRefresh, for a dashboard of one widget *)

\* number of clock advances explored
MaxClockSteps == 2

\* largest retryCount of a lastError explored
MaxErrors == 1

\* the amounts the clock advances by, ms
ClockSteps == {1000, 2000, 60000}

\* the hook after the first run of its effect: autoRefresh is on, the interval
\* is set and its callback sees the widgets of the first render; lastError and
\* lastUpdated are those of the widget in the store, seen is the lastError of
\* the widget the callback of the interval holds
MountedRefresh ==
  [mounted |-> TRUE, autoRefresh |-> TRUE, timers |-> 1, lastError |-> Undef,
   seen |-> Undef, lastUpdated |-> Undef, clock |-> 0, steps |-> 0,
   lastTick |-> [k |-> "none"]]

\* whether smartRefresh returns before updateWidget for a widget whose
\* lastError is err, at time t
smartRefreshSkips(err, t) ==
  IF err = Undef THEN FALSE
  ELSE LET timeSinceError == t - err.timestamp
           retryAfterMs ==
             (IF Truthy(err.retryAfter) THEN err.retryAfter.n
              ELSE DefaultRetryAfter) * 1000
           backoffDelay == Min(30000, 1000 * Pow(2, err.retryCount))
       IN CASE err.type = "rate_limit" -> timeSinceError < retryAfterMs
            [] err.type = "auth" -> TRUE
            [] OTHER -> timeSinceError < backoffDelay

\* the effect of useAutoRefresh runs again after autoRefresh or
\* refreshInterval changed: the cleanup of its last run, then its body
AutoRefreshEffect(on) ==
  LET cleaned == IF refresh.timers > 0 THEN refresh.timers - 1 ELSE 0
  IN /\ refresh.mounted
     /\ refresh' = [refresh EXCEPT !.autoRefresh = on,
                                   !.timers = IF on THEN cleaned + 1 ELSE cleaned,
                                   !.seen = IF on THEN refresh.lastError ELSE refresh.seen]

\* the callback of the interval: smartRefresh over the widgets it holds
AutoRefreshTick ==
  LET skipped == smartRefreshSkips(refresh.seen, refresh.clock)
  IN /\ refresh.timers > 0
     /\ refresh' = [refresh EXCEPT
                      !.lastUpdated = IF skipped THEN refresh.lastUpdated
                                      ELSE Num(refresh.clock),
                      !.lastTick = [k |-> "tick", bumped |-> ~skipped,
                                    at |-> refresh.clock]]

\* a fetch of the widget failed: fetchData stores lastError
RecordError(apiErr) ==
  LET previous == IF refresh.lastError = Undef THEN 0 ELSE refresh.lastError.retryCount
  IN /\ refresh.mounted
     /\ previous < MaxErrors
     /\ refresh' = [refresh EXCEPT !.lastError =
                      [type |-> apiErr.type, timestamp |-> refresh.clock,
                       retryAfter |-> apiErr.retryAfter, retryCount |-> previous + 1]]

\* a fetch of the widget succeeded: fetchData clears lastError
ClearError ==
  /\ refresh.mounted
  /\ refresh.lastError # Undef
  /\ refresh' = [refresh EXCEPT !.lastError = Undef]

\* the Dashboard is unmounted: the cleanup of the effect
UnmountDashboard ==
  /\ refresh.mounted
  /\ refresh' = [refresh EXCEPT
                   !.mounted = FALSE,
                   !.timers = IF refresh.timers > 0 THEN refresh.timers - 1 ELSE 0]

\* Date.now() advances
AdvanceClock(d) ==
  /\ refresh.steps < MaxClockSteps
  /\ refresh' = [refresh EXCEPT !.clock = refresh.clock + d, !.steps = refresh.steps + 1]

---------------------------------------------------------------------------
(* Specifications *)

ClassifyIdle == failure = Undef /\ classified = Pending

RetryIdle ==
  /\ policy = DefaultPolicy
  /\ attempt = 0
  /\ calls = 0
  /\ pc = "idle"
  /\ lastError = Undef
  /\ delay = 0
  /\ sleepMs = 0
  /\ thrown = Undef
  /\ settled = Pending
  /\ history = <<>>

FetchIdle == fetchCalls = [i \in CallIds |-> NewCall]

InferIdle == sample = Undef /\ inferred = Pending

WidgetIdle == widget = Undef

TestIdle == test = Undef

RefreshIdle == refresh = Undef

CacheIdle ==
  /\ cache = <<>>
  /\ cleanupTimer = FALSE
  /\ nextSweep = 0
  /\ now = 0
  /\ ticks = 0
  /\ lastOp = [op |-> "none"]

\* parseError applied to one value
Classify ==
  /\ classified = Pending
  /\ classified' = ParseError(failure)
  /\ UNCHANGED <<failure, notClassifyVars>>

InitClassify ==
  /\ failure \in Failures
  /\ classified = Pending
  /\ RetryIdle
  /\ CacheIdle
  /\ FetchIdle
  /\ InferIdle
  /\ WidgetIdle
  /\ TestIdle
  /\ RefreshIdle

NextClassify == Classify

SpecClassify == InitClassify /\ [][NextClassify]_vars

\* one call of executeWithRetry
Init ==
  /\ ClassifyIdle
  /\ policy \in Policies
  /\ attempt = 0
  /\ calls = 0
  /\ pc = "loop"
  /\ lastError = Undef
  /\ delay = 0
  /\ sleepMs = 0
  /\ thrown = Undef
  /\ settled = Pending
  /\ history = <<>>
  /\ CacheIdle
  /\ FetchIdle
  /\ InferIdle
  /\ WidgetIdle
  /\ TestIdle
  /\ RefreshIdle

Next ==
  \/ Invoke /\ UNCHANGED notRetryVars
  \/ LoopExit /\ UNCHANGED notRetryVars
  \/ \E v \in Values : CallResolves(v) /\ UNCHANGED notRetryVars
  \/ \E e \in RetryFailures, j \in Jitters :
       CallRejects(e, j) /\ UNCHANGED notRetryVars
  \/ SleepElapses /\ UNCHANGED notRetryVars

Spec == Init /\ [][Next]_vars

\* the call settles
ApiCallSettles ==
  \/ \E v \in Values : CallResolves(v) /\ UNCHANGED notRetryVars
  \/ \E e \in RetryFailures, j \in Jitters :
       CallRejects(e, j) /\ UNCHANGED notRetryVars

\* every invocation of apiCall settles, every sleep elapses, and the code
\* between two awaits runs
SpecLive ==
  /\ Spec
  /\ WF_vars(Invoke /\ UNCHANGED notRetryVars)
  /\ WF_vars(LoopExit /\ UNCHANGED notRetryVars)
  /\ WF_vars(ApiCallSettles)
  /\ WF_vars(SleepElapses /\ UNCHANGED notRetryVars)

\* the cache after its constructor ran
InitCache ==
  /\ ClassifyIdle
  /\ RetryIdle
  /\ cache = <<>>
  /\ cleanupTimer = TRUE
  /\ nextSweep = CleanupInterval
  /\ now = 0
  /\ ticks = 0
  /\ lastOp = [op |-> "none"]
  /\ FetchIdle
  /\ InferIdle
  /\ WidgetIdle
  /\ TestIdle
  /\ RefreshIdle

NextCache ==
  \/ \E r \in Requests : Get(r[1], r[2]) /\ UNCHANGED notCacheVars
  \/ \E r \in Requests, d \in Payloads, t \in Ttls :
       Set(r[1], d, r[2], t) /\ UNCHANGED notCacheVars
  \/ \E r \in Requests : Has(r[1], r[2]) /\ UNCHANGED notCacheVars
  \/ \E r \in Requests : Delete(r[1], r[2]) /\ UNCHANGED notCacheVars
  \/ Clear /\ UNCHANGED notCacheVars
  \/ Destroy /\ UNCHANGED notCacheVars
  \/ CleanupTimerFires /\ UNCHANGED notCacheVars
  \/ \E d \in TickSteps : Tick(d) /\ UNCHANGED notCacheVars

SpecCache == InitCache /\ [][NextCache]_vars

\* a cache whose clients only get and set, one payload, until it is destroyed
NextCacheLive ==
  \/ \E r \in Requests : Get(r[1], r[2]) /\ UNCHANGED notCacheVars
  \/ \E r \in Requests, t \in Ttls :
       Set(r[1], Str(<<"d1">>), r[2], t) /\ UNCHANGED notCacheVars
  \/ Destroy /\ UNCHANGED notCacheVars
  \/ CleanupTimerFires /\ UNCHANGED notCacheVars
  \/ \E d \in TickSteps : Tick(d) /\ UNCHANGED notCacheVars

\* the event loop runs the callback of an interval timer that is due
SpecCacheLive ==
  /\ InitCache
  /\ [][NextCacheLive]_vars
  /\ WF_vars(CleanupTimerFires /\ UNCHANGED notCacheVars)

\* the calls of cachedFetch on the singleton cache
InitFetch == InitCache

NextFetch ==
  \/ \E i \in CallIds, r \in FetchRequests, m \in Methods, skipCache \in BOOLEAN,
        withRetry \in BOOLEAN, ttl \in FetchTtls :
       StartFetch(i, r, m, skipCache, withRetry, ttl)
         /\ UNCHANGED notFetchVars
  \/ \E i \in CallIds, out \in TransportOutcomes :
       TransportEnds(i, out) /\ UNCHANGED notFetchVars
  \/ \E i \in CallIds : RetryFetch(i) /\ UNCHANGED notFetchVars
  \/ CleanupTimerFires /\ UNCHANGED notCacheVars
  \/ \E d \in TickSteps : Tick(d) /\ UNCHANGED notCacheVars

SpecFetch == InitFetch /\ [][NextFetch]_vars

\* extractFieldsFromResponse applied to one value
InitInfer ==
  /\ ClassifyIdle
  /\ RetryIdle
  /\ CacheIdle
  /\ FetchIdle
  /\ sample \in Samples
  /\ inferred = Pending
  /\ WidgetIdle
  /\ TestIdle
  /\ RefreshIdle

NextInfer ==
  Infer /\ UNCHANGED <<classifyVars, retryVars, cacheVars, fetchCalls, widget, test, refresh>>

SpecInfer == InitInfer /\ [][NextInfer]_vars

\* one CustomWidget with an apiUrl, from its mount on
InitWidget ==
  /\ ClassifyIdle
  /\ RetryIdle
  /\ CacheIdle
  /\ FetchIdle
  /\ InferIdle
  /\ widget = MountedWidget
  /\ TestIdle
  /\ RefreshIdle

NextWidget ==
  /\ \/ RunFetchEffect
     \/ ConfigChanges
     \/ \E i \in 1..MaxFetches + 2 : FetchDataSucceeds(i)
     \/ \E i \in 1..MaxFetches + 2, e \in WidgetErrors : FetchDataFails(i, e)
     \/ \E dropped \in BOOLEAN : CountdownInterval(dropped)
     \/ ClickRetry
     \/ Unmount
  /\ UNCHANGED <<classifyVars, retryVars, cacheVars, fetchCalls, sample, inferred, test,
                 refresh>>

SpecWidget == InitWidget /\ [][NextWidget]_vars

\* one call of testApiEndpoint, with and without retry
InitTest ==
  /\ ClassifyIdle
  /\ test \in [withRetry : BOOLEAN, outcome : {Pending}, result : {Pending}]
  /\ policy = IF test.withRetry THEN TestPolicy ELSE DefaultPolicy
  /\ attempt = 0
  /\ calls = 0
  /\ pc = IF test.withRetry THEN "loop" ELSE "idle"
  /\ lastError = Undef
  /\ delay = 0
  /\ sleepMs = 0
  /\ thrown = Undef
  /\ settled = Pending
  /\ history = <<>>
  /\ CacheIdle
  /\ FetchIdle
  /\ InferIdle
  /\ WidgetIdle
  /\ RefreshIdle

\* under the policy of testApiEndpoint the loop of executeWithRetry is never
\* left through its test
NextTest ==
  \/ Invoke /\ UNCHANGED notRetryVars
  \/ \E v \in TestResponses : CallResolves(v) /\ UNCHANGED notRetryVars
  \/ \E e \in TestFailures, j \in Jitters :
       CallRejects(e, j) /\ UNCHANGED notRetryVars
  \/ SleepElapses /\ UNCHANGED notRetryVars
  \/ /\ \/ \E v \in TestResponses : AwaitApiCall(Resolved(v))
        \/ \E e \in TestFailures : AwaitApiCall(Rejected(e))
        \/ AwaitExecuteWithRetry
     /\ UNCHANGED <<classifyVars, retryVars, cacheVars, fetchCalls, sample, inferred, widget,
                    refresh>>

SpecTest == InitTest /\ [][NextTest]_vars

\* the Dashboard with one widget and auto-refresh, from its mount on
InitRefresh ==
  /\ ClassifyIdle
  /\ RetryIdle
  /\ CacheIdle
  /\ FetchIdle
  /\ InferIdle
  /\ WidgetIdle
  /\ TestIdle
  /\ refresh = MountedRefresh

NextRefresh ==
  /\ \/ \E on \in BOOLEAN : AutoRefreshEffect(on)
     \/ AutoRefreshTick
     \/ \E e \in WidgetErrors : RecordError(e)
     \/ ClearError
     \/ UnmountDashboard
     \/ \E d \in ClockSteps : AdvanceClock(d)
  /\ UNCHANGED <<classifyVars, retryVars, cacheVars, fetchCalls, sample, inferred, widget,
                 test>>

SpecRefresh == InitRefresh /\ [][NextRefresh]_vars

---------------------------------------------------------------------------
(* Claims about executeWithRetry, checked under Spec *)

Terminal == pc \in {"resolved", "rejected"}

AllRetryable ==
  history # <<>> /\ \A i \in 1..Len(history) : history[i] = "retryable"

\* C1: with maxRetries >= 0 the call is invoked at most maxRetries + 1 times; when
\* every attempt failed with a retryable failure and the promise has settled,
\* the call was invoked exactly maxRetries + 1 times and the promise rejected
\* with the classified error of the last attempt.
C1_AttemptBound ==
  policy.maxRetries >= 0 =>
    /\ calls <= policy.maxRetries + 1
    /\ (AllRetryable /\ Len(history) = policy.maxRetries + 1) => pc = "rejected"
    /\ (AllRetryable /\ Terminal) =>
         /\ pc = "rejected"
         /\ calls = policy.maxRetries + 1
         /\ Len(history) = calls
         /\ settled = Rejected(ParseError(thrown))
         /\ settled.value.k = "ApiError"
         /\ settled.value.canRetry

\* maxRetries = 3, four retryable failures, four invocations, rejected
C1_Witness ==
  /\ policy.maxRetries = 3
  /\ pc = "rejected"
  /\ AllRetryable
  /\ calls = 4

\* C2: the first attempt that succeeds or fails with canRetry = false is the
\* last one: the promise is settled, no invocation follows, a success resolves
\* the promise with a value of the call, and a non-retryable failure on the
\* first attempt leaves the call invoked exactly once.
C2_StopsAtFirstTerminalAttempt ==
  \A i \in 1..Len(history) :
    history[i] \in {"success", "fatal"} =>
      /\ i = Len(history)
      /\ calls = i
      /\ Terminal
      /\ ~ENABLED Invoke
      /\ history[i] = "success" => (settled.k = "resolved" /\ settled.value \in Values)
      /\ history[i] = "fatal" =>
           (settled = Rejected(lastError) /\ ~lastError.canRetry)
      /\ (history[i] = "fatal" /\ i = 1) => calls = 1

\* a non-retryable failure on the first attempt of a policy that allows retries
C2_Witness ==
  /\ policy.maxRetries = 3
  /\ history = <<"fatal">>
  /\ calls = 1
  /\ pc = "rejected"

\* C3: whenever the promise rejects after the call threw, the rejection value
\* is a classified ApiError.
C3_RejectsWithApiError ==
  (pc = "rejected" /\ calls > 0) => settled.value.k = "ApiError"

\* C4: the sleep before a retry that follows a rate_limit error carrying
\* retryAfter lasts at least retryAfter * 1000 ms.
C4_SleepAtLeastRetryAfter ==
  (pc = "sleeping" /\ lastError.type = "rate_limit" /\ lastError.retryAfter.k = "number") =>
    sleepMs >= lastError.retryAfter.n * 1000

\* the delays of fetchWithErrorHandling's policy, as the specification lists them
FetchPolicyDelays == <<1000, 2000, 4000, 8000, 16000, 30000, 30000, 30000>>

\* C5: before retry number n after a retryable failure that is not a rate
\* limit, the delay without the jitter is min(maxDelay, baseDelay *
\* backoffMultiplier^n), the jitter lies in [0, 1000), and for baseDelay 1000,
\* multiplier 2, maxDelay 30000 the delays are 1000, 2000, 4000, ...
C5_BackoffSequence ==
  (pc = "sleeping" /\ lastError.type # "rate_limit") =>
    /\ delay <= policy.maxDelay
    /\ \/ delay = policy.baseDelay * Pow(policy.backoffMultiplier, attempt)
       \/ /\ delay = policy.maxDelay
          /\ policy.baseDelay * Pow(policy.backoffMultiplier, attempt) > policy.maxDelay
    /\ sleepMs - delay \in 0..999
    /\ (policy.baseDelay = 1000 /\ policy.backoffMultiplier = 2 /\ policy.maxDelay = 30000) =>
         delay = FetchPolicyDelays[attempt + 1]

\* the sixth delay of the 1000, 2, 30000 policy: 32000 cut to 30000
C5_Witness ==
  /\ pc = "sleeping"
  /\ lastError.type = "server"
  /\ policy.baseDelay = 1000 /\ policy.backoffMultiplier = 2 /\ policy.maxDelay = 30000
  /\ attempt = 5
  /\ delay = 30000

\* the promise of executeWithRetry settles
RetryTerminates == <>(pc \in {"resolved", "rejected"})

\* C27: when every call settles and every sleep elapses, executeWithRetry
\* reaches a terminal outcome: it resolves, or it rejects with an ApiError.
C27_TerminalOutcome ==
  <>(\/ pc = "resolved"
     \/ pc = "rejected" /\ settled.value.k = "ApiError")

---------------------------------------------------------------------------
(* Claims about parseError, checked under SpecClassify *)

Classified == classified # Pending

HasResponse == failure.k = "object" /\ Truthy(failure.response)

\* the text of a body field, empty when the field is no string
TextOf(v) == IF v.k = "string" THEN v.s ELSE <<>>

HasRateLimitMarker(data) ==
  data.k = "object" /\ Includes(TextOf(data.Note), RateLimitMarker)

HasPremiumMarker(data) ==
  data.k = "object" /\ Includes(TextOf(data.Note), PremiumMarker)

HasInvalidCallMarker(data) ==
  data.k = "object" /\ Includes(TextOf(data.ErrorMessage), InvalidCallMarker)

MatchesNoMarker(data) ==
  ~HasRateLimitMarker(data) /\ ~HasPremiumMarker(data) /\ ~HasInvalidCallMarker(data)

\* the response carries a Retry-After header
HasRetryAfterHeader(r) == r.headers.k = "object" /\ r.headers.retryAfter.k = "string"

\* C6: a response whose body matches no provider marker is classified by its
\* status alone: 429 rate_limit/retryable, 401 and 403 auth/not retryable, 500,
\* 502, 503, 504 server/retryable, any other status unknown and retryable
\* exactly from 500 up; statusCode is the response status.
C6_StatusTable ==
  (Classified /\ HasResponse /\ MatchesNoMarker(failure.response.data)) =>
    LET s == failure.response.status IN
      /\ classified.k = "ApiError"
      /\ classified.statusCode = Num(s)
      /\ s = 429 => (classified.type = "rate_limit" /\ classified.canRetry)
      /\ s \in {401, 403} => (classified.type = "auth" /\ ~classified.canRetry)
      /\ s \in {500, 502, 503, 504} => (classified.type = "server" /\ classified.canRetry)
      /\ s \notin {429, 401, 403, 500, 502, 503, 504} =>
           (classified.type = "unknown" /\ classified.canRetry = (s >= 500))

\* C7: for a status-429 response (whose body matches no provider marker)
\* retryAfter is the number of seconds the Retry-After header carries when the
\* header is present, and 60 when it is absent.
C7_RetryAfterFromHeader ==
  (Classified /\ HasResponse /\ failure.response.status = 429
     /\ MatchesNoMarker(failure.response.data)) =>
    LET r == failure.response IN
      /\ classified.k = "ApiError"
      /\ ~HasRetryAfterHeader(r) => classified.retryAfter = Num(DefaultRetryAfter)
      /\ HasRetryAfterHeader(r) => classified.retryAfter.k = "number"
      /\ \A n \in RetryAfterSeconds :
           (HasRetryAfterHeader(r) /\ r.headers.retryAfter = Str(Decimal(n))) =>
             classified.retryAfter = Num(n)

\* C8: a response whose body carries the rate-limit marker is classified
\* rate_limit, retryable, with retryAfter 60, or the seconds of the Retry-After
\* header when the response carries one.
C8_MarkerRetryAfter ==
  (Classified /\ HasResponse /\ HasRateLimitMarker(failure.response.data)) =>
    LET r == failure.response IN
      /\ classified.k = "ApiError"
      /\ classified.type = "rate_limit"
      /\ classified.canRetry
      /\ ~HasRetryAfterHeader(r) => classified.retryAfter = Num(DefaultRetryAfter)
      /\ \A n \in RetryAfterSeconds :
           (HasRetryAfterHeader(r) /\ r.headers.retryAfter = Str(Decimal(n))) =>
             classified.retryAfter = Num(n)

\* C9: parseError returns an ApiError for every value it is handed; it never
\* raises.
C9_Total == Classified => classified.k = "ApiError"

\* C21: a response whose body matches a provider marker is classified by the
\* marker, whatever its status: rate_limit and retryable for the rate-limit
\* marker (also when the premium marker matches too), otherwise auth and not
\* retryable for the premium or the invalid-call marker.
C21_FirstMatchWins ==
  (Classified /\ HasResponse /\ ~MatchesNoMarker(failure.response.data)) =>
    LET data == failure.response.data IN
      /\ classified.k = "ApiError"
      /\ HasRateLimitMarker(data) =>
           (classified.type = "rate_limit" /\ classified.canRetry)
      /\ (~HasRateLimitMarker(data)
            /\ (HasPremiumMarker(data) \/ HasInvalidCallMarker(data))) =>
           (classified.type = "auth" /\ ~classified.canRetry)

\* the code and the message of a failure; a value that is no object has neither
CodeOf(f) == IF f.k = "object" THEN f.code ELSE Undef

MessageOf(f) == IF f.k = "object" THEN f.message ELSE Undef

\* C22: a failure without a response is classified network and retryable for
\* the codes ENOTFOUND and ECONNREFUSED, otherwise timeout and retryable for
\* the code ECONNABORTED or a message containing "timeout", otherwise unknown
\* and not retryable; the result carries no statusCode.
C22_NoResponseTable ==
  (Classified /\ ~HasResponse) =>
    LET isNetwork == CodeOf(failure) \in {Str(<<"ENOTFOUND">>), Str(<<"ECONNREFUSED">>)}
        isTimeout == \/ CodeOf(failure) = Str(<<"ECONNABORTED">>)
                     \/ Includes(TextOf(MessageOf(failure)), TimeoutMarker)
    IN /\ classified.k = "ApiError"
       /\ classified.statusCode = Undef
       /\ isNetwork => (classified.type = "network" /\ classified.canRetry)
       /\ (~isNetwork /\ isTimeout) => (classified.type = "timeout" /\ classified.canRetry)
       /\ (~isNetwork /\ ~isTimeout) => (classified.type = "unknown" /\ ~classified.canRetry)

---------------------------------------------------------------------------
(* Claims about ApiCache, checked under SpecCache *)

\* a step of get: the operation recorded after the step is a get, and no time passed
GetStep == lastOp'.op = "get" /\ now' = now /\ ticks' = ticks

\* C10: get returns the stored payload exactly when the key has an entry with
\* now < expiresAt, and then leaves the cache alone; otherwise it returns null
\* and no entry of the key remains, the other entries being kept. An entry
\* stored with ttl 1000 is returned while no time has passed and is absent from
\* 1001 ms on (and already at 1000 ms).
C10_GetReturnsFreshOnly ==
  [][GetStep =>
       LET key == generateKey(lastOp'.url, lastOp'.headers)
           found == {i \in 1..Len(cache) : cache[i].key = key}
           fresh == {i \in found : now < cache[i].expiresAt}
           others == {i \in 1..Len(cache) : cache[i].key # key}
       IN /\ \A i \in fresh : lastOp'.ret = cache[i].data /\ cache' = cache
          /\ fresh = {} =>
               /\ lastOp'.ret = Null
               /\ \A j \in 1..Len(cache') : cache'[j].key # key
               /\ Len(cache') = Cardinality(others)
               /\ \A i \in others : \E j \in 1..Len(cache') : cache'[j] = cache[i]
          /\ \A i \in found :
               cache[i].expiresAt = cache[i].timestamp + 1000 =>
                 /\ now = cache[i].timestamp => lastOp'.ret = cache[i].data
                 /\ now >= cache[i].timestamp + 1000 => lastOp'.ret = Null
  ]_vars

\* a get, 2000 ms after the set with ttl 1000, that found the entry expired
C10_Witness ==
  /\ lastOp.op = "get"
  /\ lastOp.branch = "expired"
  /\ lastOp.ret = Null
  /\ now = 2000
  /\ ticks = 2

\* a step of the cleanup timer's callback
TimerSweepStep == lastOp'.op = "sweep" /\ now' = now /\ ticks' = ticks

\* a step of set that ran the inline cleanup
InlineSweepStep ==
  lastOp'.op = "set" /\ lastOp'.swept /\ now' = now /\ ticks' = ticks

\* the entries of a Map, as a set
Entries(c) == {c[i] : i \in 1..Len(c)}

\* what a sweep at time t made of the Map `before`
SweepPost(before, after, t) ==
  LET live == {e \in Entries(before) : ~(e.expiresAt <= t)}
      evicted == live \ Entries(after)
  IN /\ \A e \in Entries(after) : ~(e.expiresAt <= t)
     /\ Len(after) <= MaxSize
     /\ Entries(after) \subseteq live
     /\ \A e \in evicted, kept \in Entries(after) : kept.timestamp >= e.timestamp
     /\ Cardinality(live) <= MaxSize => evicted = {}

\* C11: right after a sweep (the timer's, or the one set runs inline) no entry
\* with expiresAt <= now remains, at most maxSize entries remain, every
\* survivor was stored no earlier than every entry evicted for capacity, and
\* no unexpired entry is removed when at most maxSize of them exist.
C11_SweepPostcondition ==
  [][/\ TimerSweepStep => SweepPost(cache, cache', now)
     /\ InlineSweepStep => SweepPost(lastOp'.stored, cache', now)
  ]_vars

\* an inline sweep that evicted the older of two unexpired entries
C11_Witness ==
  /\ lastOp.op = "set"
  /\ lastOp.swept
  /\ Len(lastOp.stored) = MaxSize + 1
  /\ \A i \in 1..Len(lastOp.stored) : lastOp.stored[i].expiresAt > now
  /\ lastOp.stored[1].timestamp < lastOp.stored[Len(lastOp.stored)].timestamp
  /\ Len(cache) = MaxSize
  /\ cache[Len(cache)] = lastOp.stored[Len(lastOp.stored)]

\* C16: a get of the key of a set whose entry expires after it was stored,
\* issued right after that set with no time elapsed, returns the data that was
\* set, also when the set ran the inline sweep.
C16_GetAfterSet ==
  [][(/\ GetStep
      /\ lastOp.op = "set"
      /\ lastOp.entry.timestamp = now
      /\ lastOp.entry.expiresAt > lastOp.entry.timestamp
      /\ generateKey(lastOp'.url, lastOp'.headers) = lastOp.entry.key)
     => /\ lastOp'.branch = "hit"
        /\ lastOp'.ret = lastOp.entry.data
  ]_vars

\* a get that returned the payload of the set before it, which had pushed the
\* Map above 1.2 * maxSize and swept it
C16_Witness ==
  /\ lastOp.op = "get"
  /\ lastOp.since = "sweeping set"
  /\ lastOp.branch = "hit"
  /\ \E e \in Entries(cache) :
       /\ e.key = generateKey(lastOp.url, lastOp.headers)
       /\ e.timestamp = now
       /\ e.expiresAt = now + 1000
       /\ e.data = lastOp.ret
  /\ Len(cache) = MaxSize

\* C17: every entry of the cache expires after it was stored, whatever ttl
\* its set was given.
C17_ExpiresAfterStored == \A e \in Entries(cache) : e.expiresAt > e.timestamp

\* a step of set
SetStep == lastOp'.op = "set" /\ now' = now /\ ticks' = ticks

SomeExpired == \E e \in Entries(cache) : e.expiresAt <= now

---------------------------------------------------------------------------
(* Claims about cachedFetch, checked under SpecFetch *)

\* call i is issued in this step
StartStep(i) == fetchCalls[i].pc = "new" /\ fetchCalls'[i].pc # "new"

\* the key under which the cache holds the response of call c
KeyOf(c) == generateKey(c.req[1], c.req[2])

\* call c is a GET without skipCache
Cacheable(c) == c.method = <<"GET">> /\ ~c.skipCache

\* C12: a GET call without skipCache that finds an unexpired entry for its key
\* returns that entry's payload, whatever value it is, and neither invokes the
\* transport nor the retry executor.
C12_HitSkipsTransport ==
  [][\A i \in CallIds :
       StartStep(i) /\ Cacheable(fetchCalls'[i]) =>
         \A e \in Entries(cache) :
           e.key = KeyOf(fetchCalls'[i]) /\ now < e.expiresAt =>
             /\ fetchCalls'[i].pc = "resolved"
             /\ fetchCalls'[i].ret = e.data
             /\ fetchCalls'[i].sent = 0
  ]_vars

\* C13: two GET calls for the same url and headers with ttl 5000, issued
\* within the TTL and both served without a transport failure, invoke the
\* transport exactly once between them.
C13_OneTransportCall ==
  (/\ \A i \in CallIds :
        /\ fetchCalls[i].pc = "resolved"
        /\ Cacheable(fetchCalls[i])
        /\ fetchCalls[i].ttl = Num(5000)
        /\ fetchCalls[i].sent <= 1
   /\ fetchCalls[1].req = fetchCalls[2].req
   /\ now < 5000)
    => fetchCalls[1].sent + fetchCalls[2].sent = 1

\* C14: every step of a call whose method is not GET or whose skipCache is set
\* leaves the cache as it is, and the call has invoked the transport, also
\* when the cache holds an unexpired entry for its key.
C14_BypassLeavesCache ==
  [][\A i \in CallIds :
       /\ fetchCalls'[i] # fetchCalls[i]
       /\ (fetchCalls'[i].method # <<"GET">> \/ fetchCalls'[i].skipCache)
       => /\ cache' = cache
          /\ fetchCalls'[i].sent >= 1
          /\ ~fetchCalls'[i].changed
  ]_vars

\* a skipCache call that resolved with the body of its own transport call
\* while the cache kept the unexpired entry of an earlier call
C14_Witness ==
  /\ fetchCalls[1].pc = "resolved"
  /\ Cacheable(fetchCalls[1])
  /\ fetchCalls[2].pc = "resolved"
  /\ fetchCalls[2].skipCache
  /\ fetchCalls[2].sent = 1
  /\ fetchCalls[2].req = fetchCalls[1].req
  /\ \E e \in Entries(cache) :
       /\ e.key = KeyOf(fetchCalls[2])
       /\ now < e.expiresAt
       /\ e.data = fetchCalls[1].ret
       /\ e.data # fetchCalls[2].ret

\* C15 as stated: a call that rejected has left the cache unchanged, and only
\* bodies of 2xx responses are stored or returned.
C15_FailureLeavesCacheUnchanged ==
  /\ \A i \in CallIds : fetchCalls[i].pc = "rejected" => ~fetchCalls[i].changed
  /\ \A e \in Entries(cache) : e.data \in JsonBodies
  /\ \A i \in CallIds : fetchCalls[i].pc = "resolved" => fetchCalls[i].ret \in JsonBodies

\* C15, amended: a call whose transport call fails on the final attempt (or
\* without retry) rejects; no step of a call other than the one that resolves
\* it adds or replaces an entry, the only entry such a step can remove is the
\* expired entry of the call's own key (the lookup deletes it), and the
\* rejecting step leaves the cache unchanged; only bodies of 2xx responses are
\* stored or returned.
C15_FailureStoresNothing ==
  [][\A i \in CallIds :
       /\ (fetchCalls'[i] # fetchCalls[i] /\ fetchCalls'[i].pc # "resolved") =>
            /\ Entries(cache') \subseteq Entries(cache)
            /\ \A e \in Entries(cache) \ Entries(cache') :
                 e.key = KeyOf(fetchCalls'[i]) /\ e.expiresAt <= now
       /\ (fetchCalls[i].pc = "awaiting" /\ fetchCalls'[i].pc = "rejected") =>
            cache' = cache
       /\ (fetchCalls[i].pc = "awaiting" /\ fetchCalls'[i].pc = "sleeping") =>
            fetchCalls[i].withRetry /\ fetchCalls[i].attempt < FetchPolicy.maxRetries
       /\ fetchCalls'[i].pc = "resolved" => fetchCalls'[i].ret \in JsonBodies
       /\ \A e \in Entries(cache') : e.data \in JsonBodies
  ]_vars

\* a call whose lookup deleted the expired entry of its key and whose four
\* transport calls all failed
C15_Witness ==
  \E i \in CallIds :
    /\ fetchCalls[i].pc = "rejected"
    /\ fetchCalls[i].sent = FetchPolicy.maxRetries + 1
    /\ fetchCalls[i].changed
    /\ fetchCalls[i].ret.k = "ApiError"
    /\ cache = <<>>

\* C25: in a GET call without skipCache the transport is first invoked in
\* the step that looked the key up, and later only after a backoff sleep; the
\* step that ends the call's successful transport call stores the body under
\* the call's url and headers with the call's ttl and returns that body; no
\* other step of the call stores anything.
C25_LookupFetchStoreReturn ==
  [][\A i \in CallIds :
       LET b == fetchCalls[i]
           a == fetchCalls'[i]
       IN (a # b /\ Cacheable(a)) =>
            /\ (b.sent = 0 /\ a.sent > 0) =>
                 /\ b.pc = "new"
                 /\ a.sent = 1
                 /\ lastOp'.op = "get"
                 /\ generateKey(lastOp'.url, lastOp'.headers) = KeyOf(a)
            /\ (b.sent > 0 /\ a.sent > b.sent) => b.pc = "sleeping"
            /\ (b.pc = "awaiting" /\ a.pc = "resolved") =>
                 /\ a.sent >= 1
                 /\ lastOp'.op = "set"
                 /\ lastOp'.entry =
                      [key |-> KeyOf(a), data |-> a.ret, timestamp |-> now,
                       expiresAt |-> now + a.ttl.n]
            /\ ~(b.pc = "awaiting" /\ a.pc = "resolved") =>
                 Entries(cache') \subseteq Entries(cache)
  ]_vars

\* a call that missed, failed once, slept, and whose second transport call
\* succeeded: the body it returned is stored under its key for its ttl
C25_Witness ==
  \E i \in CallIds :
    /\ fetchCalls[i].pc = "resolved"
    /\ Cacheable(fetchCalls[i])
    /\ fetchCalls[i].sent = 2
    /\ lastOp.op = "set"
    /\ lastOp.entry.key = KeyOf(fetchCalls[i])
    /\ lastOp.entry.data = fetchCalls[i].ret
    /\ lastOp.entry.expiresAt = now + 5000
    /\ lastOp.entry \in Entries(cache)

---------------------------------------------------------------------------
(* Claims about extractFieldsFromResponse, checked under SpecInfer *)

\* the entries of an object, as a set
EntrySet(v) == {v.entries[i] : i \in 1..Len(v.entries)}

RECURSIVE AllChains(_)
\* the sequences of keys that lead from an object to a value through plain
\* objects only
AllChains(v) ==
  IF v.k # "object" THEN {}
  ELSE UNION {{<<e[1]>>} \cup {<<e[1]>> \o c : c \in AllChains(e[2])} : e \in EntrySet(v)}

\* the value a chain of keys leads to
RECURSIVE ValueAt(_, _)
ValueAt(v, chain) ==
  IF chain = <<>> THEN v
  ELSE ValueAt((CHOOSE e \in EntrySet(v) : e[1] = chain[1])[2], Tail(chain))

RECURSIVE JoinWithDots(_)
\* the keys of a chain joined by '.'
JoinWithDots(chain) ==
  IF Len(chain) = 1 THEN chain[1]
  ELSE JoinWithDots(SubSeq(chain, 1, Len(chain) - 1)) \o <<".">> \o chain[Len(chain)]

RECURSIVE JoinNonEmpty(_)
\* the keys of a chain joined by '.', a key whose parent path is empty standing alone
JoinNonEmpty(chain) ==
  IF Len(chain) = 1 THEN chain[1]
  ELSE LET parent == JoinNonEmpty(SubSeq(chain, 1, Len(chain) - 1))
       IN IF parent = <<>> THEN chain[Len(chain)]
          ELSE parent \o <<".">> \o chain[Len(chain)]

\* the fields returned are one per chain, each with the path given
OnePerChain(chains, pathOf(_)) ==
  /\ Len(inferred.list) = Cardinality(chains)
  /\ \A c \in chains :
       \E i \in 1..Len(inferred.list) :
         /\ inferred.list[i].key = c[Len(c)]
         /\ inferred.list[i].path = pathOf(c)
         /\ inferred.list[i].type = getFieldType(ValueAt(sample, c))

\* { a: { b: 1, c: '2024-01-01' } }
ExampleSample ==
  Wrap(<<"a">>,
       JsonObject(<< <<<<"b">>, Num(1)>>,
                     <<<<"c">>, Str(<<"2", "0", "2", "4", "-", "0", "1", "-", "0", "1">>)>> >>))

\* C18 as stated: for an object, one field per own key with path = parent
\* path + '.' + key (the key alone at the root), and for every key whose value
\* is a plain object the fields of that object's keys as well.
C18_EveryKeyAndChild ==
  (inferred.k = "fields" /\ sample.k = "object") =>
    OnePerChain(AllChains(sample), JoinWithDots)

\* C18, amended: the fields of an object called with maxDepth 3 are one per
\* chain of at most three keys; a key under an empty parent path has its own
\* name as path, any other key has parent path + '.' + key; a plain object
\* keeps its own field next to those of its keys; { a: { b: 1, c:
\* '2024-01-01' } } gives a, a.b (number) and a.c (date).
C18_EveryKeyWithinDepth ==
  (inferred.k = "fields" /\ sample.k = "object") =>
    /\ OnePerChain({c \in AllChains(sample) : Len(c) <= DefaultMaxDepth}, JoinNonEmpty)
    /\ sample = ExampleSample =>
         /\ Len(inferred.list) = 3
         /\ inferred.list[1].path = <<"a">>
         /\ inferred.list[2].path = <<"a", ".", "b">>
         /\ inferred.list[2].type = "number"
         /\ inferred.list[3].path = <<"a", ".", "c">>
         /\ inferred.list[3].type = "date"

\* the fields of an object nested four deep: the innermost key has none
C18_Witness ==
  /\ sample = Wrap(<<"a">>, Wrap(<<"b">>, Wrap(<<"c">>, Wrap(<<"v">>, Num(1)))))
  /\ inferred.k = "fields"
  /\ Len(inferred.list) = 3
  /\ inferred.list[3].path = <<"a", ".", "b", ".", "c">>
  /\ inferred.list[3].sample = Str(<<"[Object]">>)

\* the paths and depths a recursive call can be handed
InferPaths == {<<>>, <<"r">>}

InferDepths == 0..(DefaultMaxDepth + 1)

\* C26 as stated: the fields of an array are those of its first element at
\* the same path and the same maxDepth, and an empty array has none.
C26_ArrayAsFirstElement ==
  (inferred.k = "fields" /\ sample.k = "array") =>
    inferred.list =
      IF sample.items = <<>> THEN <<>>
      ELSE extractFieldsFromResponse(sample.items[1], <<>>, DefaultMaxDepth)

\* C26, amended: the fields of an array are those of its first element at
\* the same path and at maxDepth - 1, an array counting as one level of
\* depth; an empty array has none; the same for every path and depth, and so
\* for arrays in arrays.
C26_ArrayOneLevelDown ==
  (inferred.k = "fields" /\ sample.k = "array") =>
    /\ inferred.list =
         IF sample.items = <<>> THEN <<>>
         ELSE extractFieldsFromResponse(sample.items[1], <<>>, DefaultMaxDepth - 1)
    /\ \A path \in InferPaths, maxDepth \in InferDepths :
         extractFieldsFromResponse(sample, path, maxDepth) =
           IF sample.items = <<>> \/ maxDepth <= 0 THEN <<>>
           ELSE extractFieldsFromResponse(sample.items[1], path, maxDepth - 1)

\* the fields of [{ a: { b: { v: 1 } } }]: a and a.b, where the element alone
\* has a.b.v as well
C26_Witness ==
  /\ sample = JsonArray(<<Wrap(<<"a">>, Wrap(<<"b">>, Wrap(<<"v">>, Num(1))))>>)
  /\ inferred.k = "fields"
  /\ Len(inferred.list) = 2
  /\ inferred.list[2].path = <<"a", ".", "b">>
  /\ Len(extractFieldsFromResponse(sample.items[1], <<>>, DefaultMaxDepth)) = 3

---------------------------------------------------------------------------
(* Claims about CustomWidget, checked under SpecWidget *)

\* the last fetch failed with a rate limit that carries retryAfter, and its
\* error is on display
RateLimited ==
  /\ widget.mounted
  /\ ~widget.loading
  /\ widget.apiError # Null
  /\ widget.apiError.type = "rate_limit"
  /\ Truthy(widget.apiError.retryAfter)

\* C19: while a rate-limited widget counts down, manual retry is not
\* available; once the countdown is 0 the retry button is there and enabled.
C19_RetryAfterCountdown ==
  RateLimited =>
    /\ widget.retryCountdown > 0 => ~RetryButtonEnabled
    /\ widget.retryCountdown = 0 => RetryButtonEnabled

\* C28: the countdown timers of a widget are cleared with it: no callback of
\* a countdown interval runs after the unmount, and a widget never has more
\* than one countdown interval.
C28_TimersCleared ==
  /\ widget.intervals <= 1
  /\ ~widget.late

\* a step that starts a fetchData call
FetchStarts == widget'.fetches > widget.fetches

\* C30: no fetchData call is started because a fetch failed: a fetch starts
\* at the mount, on a manual retry, or after a change of the configuration.
C30_NoRefetchAfterFailure ==
  [][FetchStarts => widget.effectDue \in {"none", "mount", "config"}]_vars

---------------------------------------------------------------------------
(* Claims about testApiEndpoint, checked under SpecTest *)

\* C20: the promise of testApiEndpoint never rejects: after a response it
\* resolves with success, the data and the inferred fields; after a failure
\* of the call, with success = false, a classified ApiError, and its canRetry
\* and retryAfter.
C20_AlwaysResolves ==
  test.result # Pending =>
    /\ test.result.k = "resolved"
    /\ test.outcome.k = "resolved" =>
          /\ test.result.value.success
          /\ test.result.value.data = test.outcome.value.data
          /\ test.result.value.fields =
               extractFieldsFromResponse(test.outcome.value.data, <<>>, DefaultMaxDepth)
    /\ test.outcome.k = "rejected" =>
          /\ ~test.result.value.success
          /\ test.result.value.apiError.k = "ApiError"
          /\ test.result.value.canRetry = test.result.value.apiError.canRetry
          /\ test.result.value.retryAfter = test.result.value.apiError.retryAfter

---------------------------------------------------------------------------
(* Claims about useAutoRefresh, checked under SpecRefresh *)

\* the interval of useAutoRefresh is cleared with the Dashboard, and there is
\* never more than one
AutoRefreshTimerCleared ==
  /\ refresh.timers <= 1
  /\ ~refresh.mounted => refresh.timers = 0

\* C29: a tick of the auto-refresh leaves lastUpdated alone for a widget
\* whose lastError, as the store holds it at the tick, is auth, or rate_limit
\* younger than (retryAfter or 60) s, or another error younger than
\* min(30000, 1000 * 2^retryCount) ms; any other widget gets lastUpdated set.
C29_SmartRefreshSkips ==
  [][refresh'.lastTick # refresh.lastTick =>
       LET e == refresh.lastError
           age == refresh.clock - e.timestamp
           skip ==
             /\ e # Undef
             /\ \/ e.type = "auth"
                \/ /\ e.type = "rate_limit"
                   /\ age < 1000 * (IF Truthy(e.retryAfter) THEN e.retryAfter.n ELSE 60)
                \/ /\ e.type \notin {"auth", "rate_limit"}
                   /\ age < Min(30000, 1000 * Pow(2, e.retryCount))
       IN /\ refresh'.lastTick.bumped = ~skip
          /\ refresh'.lastUpdated = IF skip THEN refresh.lastUpdated ELSE Num(refresh.clock)
  ]_vars

====
